---- MODULE Spec2Model ----
(***************************************************************************)
(* Model of front-end/src/ui/event.rs: the key-event dispatch loop         *)
(* (event_sender) of ytui-music, its handler closures, the shared          *)
(* ui::State record behind a Mutex and the Condvar used to wake the        *)
(* fetch / render threads.                                                 *)
(*                                                                         *)
(* Rust Option values are modelled as sequences: None is <<>> and Some(x)  *)
(* is <<x>>.  Rust Strings are sequences of one-character strings.         *)
(***************************************************************************)
EXTENDS Integers, Sequences, FiniteSets, TLC

\* ------------------------------------------------------------------ bounds
MaxLen == 2
MaxDraft == 2
MaxPage == 1
NumCollab == 1
MaxIndex == 3
MaxLimit == 3

\* --------------------------------------------------------------- constants
MIDDLE_MUSIC_INDEX == 0
MIDDLE_PLAYLIST_INDEX == 1
MIDDLE_ARTIST_INDEX == 2
SEARCH_SH_KEY == "/"
HELP_SH_KEY == "?"
NEXT_SH_KEY == "n"
PREV_SH_KEY == "p"
QUIT_SH_KEY == "c"
SEEK_F_KEY == ">"
SEEK_B_KEY == "<"
TOGGLE_PAUSE_KEY == " "
SIDEBAR_LIST_COUNT == 5

None == <<>>
Some(x) == <<x>>
IsSome(o) == o # <<>>
Unwrap(o) == o[1]

HeadTo == {"Initial", "Next", "Prev"}

Window == {"None", "Sidebar", "Searchbar", "Musicbar", "Playlistbar", "Artistbar", "Helpbar"}

\* ui::Window::next / prev: the fixed cyclic order of the panes used in
\* normal operation; Helpbar enters the cycle, None stays None.
WindowNext(w) ==
    CASE w = "Sidebar" -> "Searchbar"
      [] w = "Searchbar" -> "Musicbar"
      [] w = "Musicbar" -> "Playlistbar"
      [] w = "Playlistbar" -> "Artistbar"
      [] w = "Artistbar" -> "Sidebar"
      [] w = "Helpbar" -> "Sidebar"
      [] OTHER -> "None"

WindowPrev(w) ==
    CASE w = "Sidebar" -> "Artistbar"
      [] w = "Searchbar" -> "Sidebar"
      [] w = "Musicbar" -> "Searchbar"
      [] w = "Playlistbar" -> "Musicbar"
      [] w = "Artistbar" -> "Playlistbar"
      [] w = "Helpbar" -> "Artistbar"
      [] OTHER -> "None"

\* ui::SidebarOption::try_from(usize): Ok(option) as Some, Err as None.
SidebarOption_try_from(i) ==
    CASE i = 0 -> Some("Trending")
      [] i = 1 -> Some("YoutubeCommunity")
      [] i = 2 -> Some("Favourates")
      [] i = 3 -> Some("RecentlyPlayed")
      [] i = 4 -> Some("Search")
      [] OTHER -> None

\* ------------------------------------------------------- pure helpers
\* advance_index that stops at index 0 instead of wrapping to the last one
advance_index_no_wrap(current, limit, direction) ==
    IF limit = 0 THEN 0
    ELSE CASE direction = "Next" -> (current + 1) % limit
           [] direction = "Prev" -> (IF current >= 1 THEN current - 1 ELSE 0) % limit
           [] OTHER -> current

advance_index(current, limit, direction) ==
    IF limit = 0 THEN 0
    ELSE CASE direction = "Next" -> (current + 1) % limit
           [] direction = "Prev" -> (IF current >= 1 THEN current - 1 ELSE limit - 1) % limit
           [] OTHER -> current

get_page(current, direction) ==
    IF current = None THEN 0
    ELSE CASE direction = "Initial" -> 0
           [] direction = "Next" -> Unwrap(current) + 1
           [] OTHER -> IF Unwrap(current) >= 1 THEN Unwrap(current) - 1 ELSE 0

\* str::trim on a String held as a sequence of characters
RECURSIVE TrimStart(_)
TrimStart(s) == IF s # <<>> /\ Head(s) = " " THEN TrimStart(Tail(s)) ELSE s

RECURSIVE TrimEnd(_)
TrimEnd(s) == IF s # <<>> /\ s[Len(s)] = " " THEN TrimEnd(SubSeq(s, 1, Len(s) - 1)) ELSE s

trim(s) == TrimEnd(TrimStart(s))

\* String::pop
StrPop(s) == IF s = <<>> THEN s ELSE SubSeq(s, 1, Len(s) - 1)

\* source descriptors (ui::MusicbarSource / PlaylistbarSource / ArtistbarSource)
SrcNone == [tag |-> "None", arg |-> <<>>]
SrcTrending == [tag |-> "Trending", arg |-> <<>>]
SrcSearch(q) == [tag |-> "Search", arg |-> q]
SrcPlaylist(id) == [tag |-> "Playlist", arg |-> id]
SrcArtist(id) == [tag |-> "Artist", arg |-> id]

\* the built-in artist list of event_sender
youtube_community_channels == << <<"UCrKZcyOJVWnJ60zM1XWllNw">> >>

\* item ids the fetch worker has put in a pane holding n items
Items(pane, n) == [i \in 1..n |-> <<pane, ToString(i)>>]

\* ------------------------------------------------- handler results
\* A handler closure runs one critical section on the shared state: `s` is
\* the state it leaves, `notify` whether it calls notifier.notify_all()
\* before its guard goes out of scope, `then` what the calling thread does
\* next (handlers called after the guard is gone, later notify_all calls,
\* the break of 'listener_loop), `panic` whether the closure panicked, and
\* `drop` whether the guard is released before `then` starts.
Call(f, arg) == [op |-> "call", f |-> f, arg |-> arg, ctrl |-> FALSE]
CallC(f, arg, ctrl) == [op |-> "call", f |-> f, arg |-> arg, ctrl |-> ctrl]
NotifyItem == [op |-> "notify", f |-> "", arg |-> "", ctrl |-> FALSE]
BreakItem == [op |-> "break", f |-> "", arg |-> "", ctrl |-> FALSE]

Res(s, notify, then) == [s |-> s, notify |-> notify, then |-> then, panic |-> FALSE, drop |-> TRUE]
Panicked(s) == [s |-> s, notify |-> FALSE, then |-> <<>>, panic |-> TRUE, drop |-> FALSE]

\* the macro without its std::mem::drop(state)
drop_and_call_keeps_guard(s, f, arg) ==
    [s |-> s, notify |-> FALSE, then |-> <<Call(f, arg)>>, panic |-> FALSE, drop |-> FALSE]

\* macro drop_and_call!: std::mem::drop(state) and then the callback
drop_and_call(s, f, arg) == Res(s, FALSE, <<Call(f, arg)>>)

\* ---------------------------------------------- external State methods
\* ui::State::play_music, activate_playlist: delegate to the player and
\* leave the record this loop manages as it is.
play_music(s, id) == s
activate_playlist(s, id) == s
\* ui::State::toggle_pause(notifier): flips the playback flag and wakes.
toggle_pause(s) == Res([s EXCEPT !.paused = ~s.paused], TRUE, <<>>)

\* ------------------------------------------------------ handler closures
advance_sidebar(s, direction) ==
    LET current == IF IsSome(s.sidebar) THEN Unwrap(s.sidebar) ELSE 0
    IN Res([s EXCEPT !.sidebar = Some(advance_index(current, SIDEBAR_LIST_COUNT, direction))],
           TRUE, <<>>)

advance_music_list(s, direction) ==
    LET next_index == IF s.musicbar.selected = None THEN 0
                      ELSE advance_index(Unwrap(s.musicbar.selected), Len(s.musicbar.items), direction)
    IN Res([s EXCEPT !.musicbar.selected = Some(next_index)], TRUE, <<>>)

\* advance_playlist_list that stops at the last item instead of wrapping
advance_playlist_list_no_wrap(s, direction) ==
    LET last == Len(s.playlistbar.items) - 1
        next_index == IF s.playlistbar.selected = None THEN 0
                      ELSE IF direction = "Next" /\ Unwrap(s.playlistbar.selected) = last THEN last
                      ELSE advance_index(Unwrap(s.playlistbar.selected), Len(s.playlistbar.items), direction)
    IN Res([s EXCEPT !.playlistbar.selected = Some(next_index)], TRUE, <<>>)

advance_playlist_list(s, direction) ==
    LET next_index == IF s.playlistbar.selected = None THEN 0
                      ELSE advance_index(Unwrap(s.playlistbar.selected), Len(s.playlistbar.items), direction)
    IN Res([s EXCEPT !.playlistbar.selected = Some(next_index)], TRUE, <<>>)

advance_artist_list(s, direction) ==
    LET next_index == IF s.artistbar.selected = None THEN 0
                      ELSE advance_index(Unwrap(s.artistbar.selected), Len(s.artistbar.items), direction)
    IN Res([s EXCEPT !.artistbar.selected = Some(next_index)], TRUE, <<>>)

\* quit that forgets notify_all
quit_without_wake(s) == Res([s EXCEPT !.active = "None"], FALSE, <<>>)

\* quit that forgets to set the focus
quit_keeps_focus(s) == Res(s, FALSE, <<NotifyItem>>)

\* the guard is a temporary of the assignment statement: it is gone before
\* notify_all runs
quit(s) == Res([s EXCEPT !.active = "None"], FALSE, <<NotifyItem>>)

\* moveto_next_window that forgets notify_all
\* moveto_next_window that stays on the last pane of the cycle
moveto_next_window_no_wrap(s) ==
    Res([s EXCEPT !.active = IF WindowNext(s.active) = "Sidebar" THEN s.active
                               ELSE WindowNext(s.active)], TRUE, <<>>)

moveto_next_window_silent(s) == Res([s EXCEPT !.active = WindowNext(s.active)], FALSE, <<>>)

moveto_next_window(s) == Res([s EXCEPT !.active = WindowNext(s.active)], TRUE, <<>>)

moveto_prev_window(s) == Res([s EXCEPT !.active = WindowPrev(s.active)], TRUE, <<>>)

\* handle_esc that leaves the draft as typed
handle_esc_keeps_draft(s) ==
    IF s.active = "Searchbar"
    THEN drop_and_call(s, "moveto_next_window", "")
    ELSE Res(s, FALSE, <<>>)

handle_esc(s) ==
    IF s.active = "Searchbar"
    THEN drop_and_call([s EXCEPT !.search[1] = <<>>], "moveto_next_window", "")
    ELSE Res(s, FALSE, <<>>)

\* handle_backspace that empties the draft instead of popping one character
handle_backspace_clears(s) ==
    IF s.active = "Searchbar"
    THEN Res([s EXCEPT !.search[1] = <<>>], TRUE, <<>>)
    ELSE drop_and_call(s, "moveto_prev_window", "")

handle_backspace(s) ==
    IF s.active = "Searchbar"
    THEN Res([s EXCEPT !.search[1] = StrPop(s.search[1])], TRUE, <<>>)
    ELSE drop_and_call(s, "moveto_prev_window", "")

handle_search_input(s, ch) ==
    Res([s EXCEPT !.search[1] = Append(s.search[1], ch)], FALSE, <<NotifyItem>>)

activate_search(s) == Res([s EXCEPT !.active = "Searchbar"], TRUE, <<>>)

\* takes no lock, only prints
show_help(s) == Res(s, FALSE, <<>>)

handle_up_down(s, direction) ==
    CASE s.active = "Sidebar" -> drop_and_call(s, "advance_sidebar", direction)
      [] s.active = "Musicbar" -> drop_and_call(s, "advance_music_list", direction)
      [] s.active = "Playlistbar" -> drop_and_call(s, "advance_playlist_list", direction)
      [] s.active = "Artistbar" -> drop_and_call(s, "advance_artist_list", direction)
      [] OTHER -> CASE direction = "Next" -> drop_and_call(s, "moveto_next_window", "")
                    [] direction = "Prev" -> drop_and_call(s, "moveto_prev_window", "")
                    [] OTHER -> Panicked(s)

\* start_search that commits the draft as typed
start_search_untrimmed(s) ==
    LET q == s.search[1]
    IN Res([s EXCEPT !.search[2] = q,
                     !.fetched_page = <<Some(0), Some(0), Some(0)>>,
                     !.filled_source = <<SrcSearch(q), SrcSearch(q), SrcSearch(q)>>,
                     !.help = "Searching.."],
           TRUE, <<>>)

start_search(s) ==
    LET q == trim(s.search[1])
    IN Res([s EXCEPT !.search[2] = q,
                     !.fetched_page = <<Some(0), Some(0), Some(0)>>,
                     !.filled_source = <<SrcSearch(q), SrcSearch(q), SrcSearch(q)>>,
                     !.help = "Searching.."],
           TRUE, <<>>)

\* fill_trending_music that keeps the page it finds
fill_trending_music_keeps_page(s, direction) ==
    Res([s EXCEPT !.fetched_page[MIDDLE_MUSIC_INDEX + 1] =
                       IF IsSome(s.fetched_page[MIDDLE_MUSIC_INDEX + 1])
                       THEN s.fetched_page[MIDDLE_MUSIC_INDEX + 1]
                       ELSE Some(0),
                  !.filled_source[1] = SrcTrending,
                  !.help = "Fetching.."],
        TRUE, <<>>)

fill_trending_music(s, direction) ==
    Res([s EXCEPT !.fetched_page[MIDDLE_MUSIC_INDEX + 1] =
                       Some(get_page(s.fetched_page[MIDDLE_MUSIC_INDEX + 1], direction)),
                  !.filled_source[1] = SrcTrending,
                  !.help = "Fetching.."],
        TRUE, <<>>)

fill_community_source(s) ==
    Res([s EXCEPT !.artistbar.items = youtube_community_channels,
                  !.active = "Artistbar"],
        TRUE, <<>>)

\* empty closures: no lock, no write, no wake
fill_recents_music(s, direction) == Res(s, FALSE, <<>>)
fill_favourates_music(s, direction) == Res(s, FALSE, <<>>)
fill_favourates_artist(s, direction) == Res(s, FALSE, <<>>)
handle_play_advance(s, direction) == Res(s, FALSE, <<>>)

\* fill_music_from_playlist that turns the page it finds instead of starting
\* at the first
fill_music_from_playlist_next_page(s, direction) ==
    IF s.filled_source[1].tag = "Playlist"
    THEN Res([s EXCEPT !.filled_source[1] = SrcPlaylist(s.filled_source[1].arg),
                       !.fetched_page[MIDDLE_MUSIC_INDEX + 1] =
                            Some(get_page(s.fetched_page[MIDDLE_MUSIC_INDEX + 1], "Next")),
                       !.help = "Fetching playlist.."],
             TRUE, <<>>)
    ELSE Res(s, FALSE, <<>>)

fill_music_from_playlist(s, direction) ==
    IF s.filled_source[1].tag = "Playlist"
    THEN Res([s EXCEPT !.filled_source[1] = SrcPlaylist(s.filled_source[1].arg),
                       !.fetched_page[MIDDLE_MUSIC_INDEX + 1] =
                            Some(get_page(s.fetched_page[MIDDLE_MUSIC_INDEX + 1], direction)),
                       !.help = "Fetching playlist.."],
             TRUE, <<>>)
    ELSE Res(s, FALSE, <<>>)

fill_music_from_artist(s, direction) ==
    IF s.filled_source[1].tag = "Artist"
    THEN Res([s EXCEPT !.filled_source[1] = SrcArtist(s.filled_source[1].arg),
                       !.fetched_page[MIDDLE_MUSIC_INDEX + 1] =
                            Some(get_page(s.fetched_page[MIDDLE_MUSIC_INDEX + 1], direction)),
                       !.help = "Fetching channel.."],
             TRUE, <<>>)
    ELSE Res(s, FALSE, <<>>)

fill_playlist_from_artist(s, direction) ==
    IF s.filled_source[2].tag = "Artist"
    THEN Res([s EXCEPT !.filled_source[2] = SrcArtist(s.filled_source[2].arg),
                       !.fetched_page[MIDDLE_PLAYLIST_INDEX + 1] =
                            Some(get_page(s.fetched_page[MIDDLE_PLAYLIST_INDEX + 1], direction)),
                       !.help = "Fetching channel.."],
             TRUE, <<>>)
    ELSE Res(s, FALSE, <<>>)

\* handle_page_nav that always turns the page of the music pane
handle_page_nav_music_slot(s, direction) ==
    IF s.active \notin {"Musicbar", "Playlistbar", "Artistbar"}
    THEN Res(s, FALSE, <<>>)
    ELSE LET target_index == MIDDLE_MUSIC_INDEX
             page == get_page(s.fetched_page[target_index + 1], direction)
         IN Res([s EXCEPT !.fetched_page[target_index + 1] = Some(page)], TRUE, <<>>)

handle_page_nav(s, direction) ==
    IF s.active \notin {"Musicbar", "Playlistbar", "Artistbar"}
    THEN Res(s, FALSE, <<>>)
    ELSE LET target_index == CASE s.active = "Musicbar" -> MIDDLE_MUSIC_INDEX
                               [] s.active = "Playlistbar" -> MIDDLE_PLAYLIST_INDEX
                               [] OTHER -> MIDDLE_ARTIST_INDEX
             page == get_page(s.fetched_page[target_index + 1], direction)
         IN Res([s EXCEPT !.fetched_page[target_index + 1] = Some(page)], TRUE, <<>>)

\* the Sidebar arm of handle_enter
handle_enter_sidebar(s) ==
    IF s.sidebar = None
    THEN Panicked(s)
    ELSE LET side_select == SidebarOption_try_from(Unwrap(s.sidebar))
         IN IF side_select = None
            THEN Panicked(s)
            ELSE CASE Unwrap(side_select) = "Trending" ->
                          drop_and_call(s, "fill_trending_music", "Initial")
                   [] Unwrap(side_select) = "YoutubeCommunity" ->
                          drop_and_call(s, "fill_community_source", "")
                   [] Unwrap(side_select) = "Favourates" ->
                          drop_and_call(s, "fill_favourates_music", "Initial")
                   [] Unwrap(side_select) = "RecentlyPlayed" ->
                          drop_and_call(s, "fill_recents_music", "Initial")
                   [] Unwrap(side_select) = "Search" ->
                          drop_and_call(s, "activate_search", "")
                   [] OTHER -> Res(s, FALSE, <<>>)

\* the Musicbar arm of handle_enter
handle_enter_musicbar(s) ==
    IF IsSome(s.musicbar.selected)
    THEN IF Unwrap(s.musicbar.selected) >= Len(s.musicbar.items)
         THEN Panicked(s)
         ELSE Res(play_music(s, s.musicbar.items[Unwrap(s.musicbar.selected) + 1]), FALSE, <<>>)
    ELSE Res(s, FALSE, <<>>)

\* the Playlistbar arm of handle_enter
handle_enter_playlistbar(s) ==
    IF IsSome(s.playlistbar.selected)
    THEN IF Unwrap(s.playlistbar.selected) >= Len(s.playlistbar.items)
         THEN Panicked(s)
         ELSE LET playlist_id == s.playlistbar.items[Unwrap(s.playlistbar.selected) + 1]
                  s1 == activate_playlist(s, playlist_id)
                  r == drop_and_call([s1 EXCEPT !.filled_source[1] = SrcPlaylist(playlist_id)],
                                     "fill_music_from_playlist", "Initial")
              IN [r EXCEPT !.then = r.then \o <<NotifyItem>>]
    ELSE Res(s, FALSE, <<>>)

\* the Artistbar arm that sets the music descriptor only
handle_enter_artistbar_half(s) ==
    IF IsSome(s.artistbar.selected)
    THEN IF Unwrap(s.artistbar.selected) >= Len(s.artistbar.items)
         THEN Panicked(s)
         ELSE LET artist_id == s.artistbar.items[Unwrap(s.artistbar.selected) + 1]
              IN Res([s EXCEPT !.filled_source[1] = SrcArtist(artist_id)], FALSE,
                     <<Call("fill_music_from_artist", "Initial"),
                       Call("fill_playlist_from_artist", "Initial")>>)
    ELSE Res(s, FALSE, <<>>)

\* the Artistbar arm of handle_enter
handle_enter_artistbar(s) ==
    IF IsSome(s.artistbar.selected)
    THEN IF Unwrap(s.artistbar.selected) >= Len(s.artistbar.items)
         THEN Panicked(s)
         ELSE LET artist_id == s.artistbar.items[Unwrap(s.artistbar.selected) + 1]
              IN Res([s EXCEPT !.filled_source[1] = SrcArtist(artist_id),
                               !.filled_source[2] = SrcArtist(artist_id)], FALSE,
                     <<Call("fill_music_from_artist", "Initial"),
                       Call("fill_playlist_from_artist", "Initial")>>)
    ELSE Res(s, FALSE, <<>>)

handle_enter(s) ==
    CASE s.active = "Sidebar" -> handle_enter_sidebar(s)
      [] s.active = "Searchbar" -> drop_and_call(s, "start_search", "")
      [] s.active = "Musicbar" -> handle_enter_musicbar(s)
      [] s.active = "Playlistbar" -> handle_enter_playlistbar(s)
      [] s.active = "Artistbar" -> handle_enter_artistbar(s)
      [] OTHER -> Res(s, FALSE, <<>>)

\* the KeyCode::Char(ch) arm of 'listener_loop: the focus is read under a
\* guard that lives only for the `if` condition
\* the KeyCode::Char(ch) arm with the pause key tested before the focus
KeyCode_Char_pause_first(s, ch, is_with_control) ==
    IF ch = TOGGLE_PAUSE_KEY THEN Res(s, FALSE, <<Call("toggle_pause", "")>>)
    ELSE IF s.active = "Searchbar" THEN Res(s, FALSE, <<Call("handle_search_input", ch)>>)
    ELSE IF ch = SEARCH_SH_KEY THEN Res(s, FALSE, <<Call("activate_search", "")>>)
    ELSE IF ch = HELP_SH_KEY THEN Res(s, FALSE, <<Call("show_help", "")>>)
    ELSE IF ch = QUIT_SH_KEY /\ is_with_control THEN Res(s, FALSE, <<Call("quit", ""), BreakItem>>)
    ELSE IF ch = NEXT_SH_KEY
         THEN IF is_with_control THEN Res(s, FALSE, <<Call("handle_play_advance", "Next")>>)
              ELSE Res(s, FALSE, <<Call("handle_page_nav", "Next")>>)
    ELSE IF ch = PREV_SH_KEY
         THEN IF is_with_control THEN Res(s, FALSE, <<Call("handle_play_advance", "Prev")>>)
              ELSE Res(s, FALSE, <<Call("handle_page_nav", "Prev")>>)
    ELSE Res(s, FALSE, <<>>)

KeyCode_Char(s, ch, is_with_control) ==
    IF s.active = "Searchbar" THEN Res(s, FALSE, <<Call("handle_search_input", ch)>>)
    ELSE IF ch = SEARCH_SH_KEY THEN Res(s, FALSE, <<Call("activate_search", "")>>)
    ELSE IF ch = HELP_SH_KEY THEN Res(s, FALSE, <<Call("show_help", "")>>)
    ELSE IF ch = QUIT_SH_KEY /\ is_with_control THEN Res(s, FALSE, <<Call("quit", ""), BreakItem>>)
    ELSE IF ch = NEXT_SH_KEY
         THEN IF is_with_control THEN Res(s, FALSE, <<Call("handle_play_advance", "Next")>>)
              ELSE Res(s, FALSE, <<Call("handle_page_nav", "Next")>>)
    ELSE IF ch = PREV_SH_KEY
         THEN IF is_with_control THEN Res(s, FALSE, <<Call("handle_play_advance", "Prev")>>)
              ELSE Res(s, FALSE, <<Call("handle_page_nav", "Prev")>>)
    ELSE IF ch = SEEK_F_KEY THEN Res(s, FALSE, <<>>)
    ELSE IF ch = SEEK_B_KEY THEN Res(s, FALSE, <<>>)
    ELSE IF ch = TOGGLE_PAUSE_KEY THEN Res(s, FALSE, <<Call("toggle_pause", "")>>)
    ELSE Res(s, FALSE, <<>>)

\* closures that never touch the mutex
NoLock == {"show_help", "fill_recents_music", "fill_favourates_music",
           "fill_favourates_artist", "handle_play_advance"}

\* run the critical section of the closure named by a call item
Sec(it, s) ==
    CASE it.f = "advance_sidebar" -> advance_sidebar(s, it.arg)
      [] it.f = "advance_music_list" -> advance_music_list(s, it.arg)
      [] it.f = "advance_playlist_list" -> advance_playlist_list(s, it.arg)
      [] it.f = "advance_artist_list" -> advance_artist_list(s, it.arg)
      [] it.f = "quit" -> quit(s)
      [] it.f = "moveto_next_window" -> moveto_next_window(s)
      [] it.f = "moveto_prev_window" -> moveto_prev_window(s)
      [] it.f = "handle_esc" -> handle_esc(s)
      [] it.f = "handle_backspace" -> handle_backspace(s)
      [] it.f = "handle_search_input" -> handle_search_input(s, it.arg)
      [] it.f = "activate_search" -> activate_search(s)
      [] it.f = "show_help" -> show_help(s)
      [] it.f = "handle_up_down" -> handle_up_down(s, it.arg)
      [] it.f = "start_search" -> start_search(s)
      [] it.f = "fill_trending_music" -> fill_trending_music(s, it.arg)
      [] it.f = "fill_community_source" -> fill_community_source(s)
      [] it.f = "fill_recents_music" -> fill_recents_music(s, it.arg)
      [] it.f = "fill_favourates_music" -> fill_favourates_music(s, it.arg)
      [] it.f = "fill_favourates_artist" -> fill_favourates_artist(s, it.arg)
      [] it.f = "fill_music_from_playlist" -> fill_music_from_playlist(s, it.arg)
      [] it.f = "fill_music_from_artist" -> fill_music_from_artist(s, it.arg)
      [] it.f = "fill_playlist_from_artist" -> fill_playlist_from_artist(s, it.arg)
      [] it.f = "handle_play_advance" -> handle_play_advance(s, it.arg)
      [] it.f = "handle_page_nav" -> handle_page_nav(s, it.arg)
      [] it.f = "handle_enter" -> handle_enter(s)
      [] it.f = "KeyCode_Char" -> KeyCode_Char(s, it.arg, it.ctrl)
      [] it.f = "toggle_pause" -> toggle_pause(s)
      [] OTHER -> Res(s, FALSE, <<>>)

\* ------------------------------------------------------- input events
KeyEv(code) == [kind |-> "Key", code |-> code, ch |-> "", ctrl |-> FALSE]
CharEv(ch, ctrl) == [kind |-> "Key", code |-> "Char", ch |-> ch, ctrl |-> ctrl]
ResizeEv == [kind |-> "Resize", code |-> "", ch |-> "", ctrl |-> FALSE]
MouseEv == [kind |-> "Mouse", code |-> "", ch |-> "", ctrl |-> FALSE]
TimeoutEv == [kind |-> "Timeout", code |-> "", ch |-> "", ctrl |-> FALSE]

\* every shortcut character of the key grammar
ShortcutChars == {SEARCH_SH_KEY, HELP_SH_KEY, NEXT_SH_KEY, PREV_SH_KEY, QUIT_SH_KEY,
                  SEEK_F_KEY, SEEK_B_KEY, TOGGLE_PAUSE_KEY}
\* shortcut characters that neither page, pause nor end the program
NavChars == {SEARCH_SH_KEY, HELP_SH_KEY, SEEK_F_KEY, SEEK_B_KEY}
\* characters typed into the search bar: a blank and a letter, which is the
\* letter of the quit key
TextChars == {TOGGLE_PAUSE_KEY, QUIT_SH_KEY}

\* one pass of 'listener_loop: what the loop body does with the polled event
\* 'listener_loop without the else branch of the poll: a timeout wakes nobody
event_sender_silent_timeout(e) ==
    CASE e.kind = "Timeout" -> <<>>
      [] e.kind = "Resize" -> <<NotifyItem>>
      [] e.kind = "Mouse" -> <<>>
      [] OTHER ->
         CASE e.code \in {"Down", "PageDown"} -> <<Call("handle_up_down", "Next")>>
           [] e.code \in {"Up", "PageUp"} -> <<Call("handle_up_down", "Prev")>>
           [] e.code \in {"Right", "Tab"} -> <<Call("moveto_next_window", "")>>
           [] e.code \in {"Left", "BackTab"} -> <<Call("moveto_prev_window", "")>>
           [] e.code = "Esc" -> <<Call("handle_esc", "")>>
           [] e.code = "Enter" -> <<Call("handle_enter", "")>>
           [] e.code \in {"Backspace", "Delete"} -> <<Call("handle_backspace", "")>>
           [] e.code = "Char" -> <<CallC("KeyCode_Char", e.ch, e.ctrl)>>
           [] OTHER -> <<>>

event_sender(e) ==
    CASE e.kind = "Timeout" -> <<NotifyItem>>
      [] e.kind = "Resize" -> <<NotifyItem>>
      [] e.kind = "Mouse" -> <<>>
      [] OTHER ->
         CASE e.code \in {"Down", "PageDown"} -> <<Call("handle_up_down", "Next")>>
           [] e.code \in {"Up", "PageUp"} -> <<Call("handle_up_down", "Prev")>>
           [] e.code \in {"Right", "Tab"} -> <<Call("moveto_next_window", "")>>
           [] e.code \in {"Left", "BackTab"} -> <<Call("moveto_prev_window", "")>>
           [] e.code = "Esc" -> <<Call("handle_esc", "")>>
           [] e.code = "Enter" -> <<Call("handle_enter", "")>>
           [] e.code \in {"Backspace", "Delete"} -> <<Call("handle_backspace", "")>>
           [] e.code = "Char" -> <<CallC("KeyCode_Char", e.ch, e.ctrl)>>
           [] OTHER -> <<>>

\* Run the calling thread through the pending items until the loop body is
\* over, the loop is left, or the thread panics / blocks on its own guard.
RECURSIVE Run(_)
Run(r) ==
    IF r.loop # "running" \/ r.stack = <<>> THEN r
    ELSE LET it == Head(r.stack)
             rest == Tail(r.stack)
         IN CASE it.op = "notify" -> Run([r EXCEPT !.stack = rest, !.woke = TRUE, !.dirty = FALSE])
              [] it.op = "break" -> [r EXCEPT !.stack = <<>>, !.loop = "stopped"]
              [] OTHER ->
                 IF it.f \notin NoLock /\ r.held
                 THEN [r EXCEPT !.stack = <<>>, !.loop = "deadlocked"]
                 ELSE LET q == Sec(it, r.s)
                      IN IF q.panic
                         THEN [r EXCEPT !.stack = <<>>, !.loop = "panicked"]
                         ELSE Run([s |-> q.s,
                                   stack |-> q.then \o rest,
                                   woke |-> r.woke \/ q.notify,
                                   dirty |-> IF q.notify THEN FALSE ELSE (r.dirty \/ q.s # r.s),
                                   loop |-> r.loop,
                                   held |-> (q.then # <<>> /\ ~q.drop)])

\* the whole handling of one event, started on state s
Handle(s, e) ==
    Run([s |-> s, stack |-> event_sender(e), woke |-> FALSE, dirty |-> FALSE,
         loop |-> "running", held |-> FALSE])

\* ----------------------------------------------------------------- state
\* state : the ui::State record behind the mutex
\* loop  : "running" while 'listener_loop polls, "stopped" after its break,
\*         "panicked" / "deadlocked" when the thread died or blocked for ever
\* stack : what is left to do of the loop body being executed (thread view)
\* dirty : the loop body has changed state and not called notify_all since
\* wrote : the loop body being executed has changed state
\* lock  : 0 when the mutex is free, else the thread holding it
\* cpc   : where each collaborator thread is
\* index : a call sequence of advance_index: the index it started from, the
\*         list length, the directions passed so far and the index returned
VARIABLES state, loop, dirty, wrote, stack, lock, cpc, index

vars == <<state, loop, dirty, wrote, stack, lock, cpc, index>>

Collabs == 1..NumCollab

\* the lock value that stands for the dispatching thread
Disp == NumCollab + 1

\* ui::State::default(), with the panes as the fetch worker filled them
State_default(sb, nm, np, na) ==
    [active |-> "Sidebar",
     sidebar |-> sb,
     musicbar |-> [items |-> Items("m", nm), selected |-> None],
     playlistbar |-> [items |-> Items("p", np), selected |-> None],
     artistbar |-> [items |-> Items("r", na), selected |-> None],
     search |-> << <<>>, <<>> >>,
     filled_source |-> <<SrcNone, SrcNone, SrcNone>>,
     fetched_page |-> <<None, None, None>>,
     help |-> "",
     paused |-> FALSE]

InitCtl ==
    /\ loop = "running"
    /\ dirty = FALSE
    /\ wrote = FALSE
    /\ stack = <<>>
    /\ lock = 0
    /\ cpc = [c \in Collabs |-> "check"]
    /\ index = [origin |-> 0, current |-> 0, limit |-> 0, trail |-> <<>>]

Init ==
    /\ \E sb \in {None, Some(0)}, n \in 0..MaxLen :
          state = State_default(sb, n, n, n)
    /\ InitCtl

\* the model stops typing at MaxDraft characters and paging at MaxPage
InBounds(s, e) ==
    e.code = "Char" =>
       /\ s.active = "Searchbar" => Len(s.search[1]) < MaxDraft
       /\ (e.ch = NEXT_SH_KEY /\ ~e.ctrl) =>
             /\ s.active = "Musicbar" => s.fetched_page[1] # Some(MaxPage)
             /\ s.active = "Playlistbar" => s.fetched_page[2] # Some(MaxPage)
             /\ s.active = "Artistbar" => s.fetched_page[3] # Some(MaxPage)

\* ------------------------------------------- actions, one event at a time
Dispatch(e) ==
    /\ loop = "running"
    /\ stack = <<>>
    /\ InBounds(state, e)
    /\ LET r == Handle(state, e)
       IN /\ state' = r.s
          /\ loop' = r.loop
          /\ dirty' = r.dirty
    /\ UNCHANGED <<wrote, stack, lock, cpc, index>>

KeyDown == Dispatch(KeyEv("Down"))
KeyUp == Dispatch(KeyEv("Up"))
KeyRight == Dispatch(KeyEv("Right"))
KeyLeft == Dispatch(KeyEv("Left"))
KeyEsc == Dispatch(KeyEv("Esc"))
KeyEnter == Dispatch(KeyEv("Enter"))
KeyBackspace == Dispatch(KeyEv("Backspace"))
KeyOther == Dispatch(KeyEv("Home"))
Resize == Dispatch(ResizeEv)
Mouse == Dispatch(MouseEv)
Timeout == Dispatch(TimeoutEv)

\* a shortcut character pressed while a pane other than the search bar has
\* the focus (text entry is explored by SpecSearch)
KeyShortcut ==
    /\ state.active # "Searchbar"
    /\ \/ \E ch \in NavChars : Dispatch(CharEv(ch, FALSE))
       \/ \E ch \in {NEXT_SH_KEY, PREV_SH_KEY} : Dispatch(CharEv(ch, TRUE))

Next ==
    \/ KeyDown \/ KeyUp \/ KeyRight \/ KeyLeft \/ KeyEsc \/ KeyEnter
    \/ KeyBackspace \/ KeyShortcut \/ KeyOther \/ Resize \/ Mouse \/ Timeout

\* Navigation: panes of every length up to MaxLen, every key but text entry,
\* paging and pause.
Spec == Init /\ [][Next]_vars

\* ------------------------------------------------------------ text entry
\* Search: the panes hold one item each and keep it unselected; the keyboard
\* moves the focus, types TextChars with and without Control, pages and
\* submits.
InitSearch ==
    /\ state = State_default(Some(0), 1, 1, 1)
    /\ InitCtl

KeyText == \E ch \in TextChars, ctrl \in BOOLEAN : Dispatch(CharEv(ch, ctrl))

\* the paging and search shortcuts, pressed outside the search bar
KeyPage ==
    /\ state.active # "Searchbar"
    /\ \E ch \in {NEXT_SH_KEY, PREV_SH_KEY, SEARCH_SH_KEY} : Dispatch(CharEv(ch, FALSE))

NextSearch ==
    \/ KeyRight \/ KeyLeft \/ KeyEsc \/ KeyEnter \/ KeyBackspace \/ KeyText \/ KeyPage

SpecSearch == InitSearch /\ [][NextSearch]_vars

\* ------------------------------------------------ threads, step by step
\* The same loop, one critical section at a time, beside collaborator
\* threads (fetch, render) that take the mutex, look at the state, and
\* block on the condition variable until the next notify_all.
\* the panes hold one item each; Down has been pressed once on the playlist
\* pane and once on the artist pane
InitConc ==
    /\ state = [State_default(Some(0), 1, 1, 1) EXCEPT !.playlistbar.selected = Some(0),
                                                      !.artistbar.selected = Some(0)]
    /\ InitCtl

ConcEvents ==
    {KeyEv("Right"), KeyEv("Esc"), KeyEv("Enter"), CharEv(QUIT_SH_KEY, TRUE),
     CharEv(HELP_SH_KEY, FALSE), TimeoutEv}

\* notify_all: every thread blocked in Condvar::wait goes back for the mutex
WakeAll(pc) == [c \in Collabs |-> IF pc[c] = "waiting" THEN "check" ELSE pc[c]]

\* event::poll / event::read hands the loop body its event
Poll(e) ==
    /\ loop = "running"
    /\ stack = <<>>
    /\ InBounds(state, e)
    /\ stack' = event_sender(e)
    /\ dirty' = FALSE
    /\ wrote' = FALSE
    /\ UNCHANGED <<state, loop, lock, cpc, index>>

PollEvent == \E e \in ConcEvents : Poll(e)

\* the dispatching thread does the next thing of its loop body
Step ==
    /\ loop = "running"
    /\ stack # <<>>
    /\ LET it == Head(stack)
           rest == Tail(stack)
       IN \/ /\ it.op = "notify"
             /\ cpc' = WakeAll(cpc)
             /\ dirty' = FALSE
             /\ stack' = rest
             /\ UNCHANGED <<state, loop, wrote, lock, index>>
          \/ /\ it.op = "break"
             /\ loop' = "stopped"
             /\ stack' = <<>>
             /\ UNCHANGED <<state, dirty, wrote, lock, cpc, index>>
          \/ /\ it.op = "call"
             /\ it.f \in NoLock
             /\ stack' = Sec(it, state).then \o rest
             /\ UNCHANGED <<state, loop, dirty, wrote, lock, cpc, index>>
          \/ /\ it.op = "call"
             /\ it.f \notin NoLock
             /\ lock \in {0, Disp}
             /\ LET q == Sec(it, state)
                IN IF lock = Disp
                   THEN \* lock() on a mutex this thread already holds
                        /\ loop' = "deadlocked"
                        /\ stack' = <<>>
                        /\ UNCHANGED <<state, dirty, wrote, lock, cpc, index>>
                   ELSE IF q.panic
                   THEN \* the guard is dropped in unwinding, the mutex poisoned
                        /\ loop' = "panicked"
                        /\ stack' = <<>>
                        /\ UNCHANGED <<state, dirty, wrote, lock, cpc, index>>
                   ELSE /\ state' = q.s
                        /\ cpc' = IF q.notify THEN WakeAll(cpc) ELSE cpc
                        /\ dirty' = IF q.notify THEN FALSE ELSE (dirty \/ q.s # state)
                        /\ wrote' = (wrote \/ q.s # state)
                        /\ stack' = q.then \o rest
                        /\ lock' = IF q.then # <<>> /\ ~q.drop THEN Disp ELSE 0
                        /\ loop' = loop
                        /\ index' = index

\* a collaborator takes the mutex (and panics on a poisoned one)
CLock(c) ==
    /\ cpc[c] = "check"
    /\ lock = 0
    /\ IF loop = "panicked"
       THEN cpc' = [cpc EXCEPT ![c] = "panicked"] /\ lock' = lock
       ELSE cpc' = [cpc EXCEPT ![c] = "holding"] /\ lock' = c
    /\ UNCHANGED <<state, loop, dirty, wrote, stack, index>>

\* holding the mutex it reads the focus: None ends the thread, anything
\* else sends it into Condvar::wait, which releases the mutex
CLook(c) ==
    /\ cpc[c] = "holding"
    /\ lock = c
    /\ cpc' = [cpc EXCEPT ![c] = IF state.active = "None" THEN "done" ELSE "waiting"]
    /\ lock' = 0
    /\ UNCHANGED <<state, loop, dirty, wrote, stack, index>>

Collab == \E c \in Collabs : CLock(c) \/ CLook(c)

NextConc == PollEvent \/ Step \/ Collab

SpecConc == InitConc /\ [][NextConc]_vars

\* a runnable thread runs: the loop body in progress goes on, and so does
\* every collaborator that can take or release the mutex
SpecLive ==
    /\ InitConc
    /\ [][NextConc]_vars
    /\ WF_vars(Step)
    /\ \A c \in Collabs : WF_vars(CLock(c)) /\ WF_vars(CLook(c))

\* ---------------------------------------------------------------- paging
\* Paging: the panes hold one item each, the playlist and artist panes with
\* Down pressed once and the sidebar on its first entry; the keyboard moves
\* the focus, presses Enter and pages forward and back.
InitPage ==
    /\ state = [State_default(Some(0), 1, 1, 1) EXCEPT !.playlistbar.selected = Some(0),
                                                      !.artistbar.selected = Some(0)]
    /\ InitCtl

NextPage == KeyRight \/ KeyLeft \/ KeyEnter \/ KeyPage

SpecPage == InitPage /\ [][NextPage]_vars

\* --------------------------------------------------------- advance_index
\* advance_index called again and again on its own result: any start index
\* up to MaxIndex, any list length up to MaxLimit, any directions.
InitIndex ==
    /\ state = State_default(None, 0, 0, 0)
    /\ loop = "running"
    /\ dirty = FALSE
    /\ wrote = FALSE
    /\ stack = <<>>
    /\ lock = 0
    /\ cpc = [c \in Collabs |-> "check"]
    /\ \E current \in 0..MaxIndex, limit \in 0..MaxLimit :
          index = [origin |-> current, current |-> current, limit |-> limit, trail |-> <<>>]

Advance(direction) ==
    /\ Len(index.trail) <= MaxLimit
    /\ index' = [index EXCEPT !.current = advance_index(index.current, index.limit, direction),
                              !.trail = Append(index.trail, direction)]
    /\ UNCHANGED <<state, loop, dirty, wrote, stack, lock, cpc>>

NextIndex == \E direction \in HeadTo : Advance(direction)

SpecIndex == InitIndex /\ [][NextIndex]_vars

\* =================================================================== claims
ListPanes == {"musicbar", "playlistbar", "artistbar"}

\* C1 (as claimed): from every focus, Control+c sets the focus to None and
\* stops the loop, and changes no other field of the state.
C1_QuitFromAnyFocus ==
    (loop = "running" /\ state.active # "None") =>
        LET r == Handle(state, CharEv(QUIT_SH_KEY, TRUE))
        IN r.s = [state EXCEPT !.active = "None"] /\ r.loop = "stopped"

\* C1 (amended): from every focus but Searchbar, Control+c sets the focus to
\* None, stops the loop and changes nothing else; with focus Searchbar the
\* character c is appended to the draft and the loop keeps running.
C1_QuitOutsideSearchbar ==
    (loop = "running" /\ state.active # "None") =>
        LET r == Handle(state, CharEv(QUIT_SH_KEY, TRUE))
        IN IF state.active = "Searchbar"
           THEN /\ r.s = [state EXCEPT !.search[1] = Append(state.search[1], "c")]
                /\ r.loop = "running"
           ELSE /\ r.s = [state EXCEPT !.active = "None"]
                /\ r.loop = "stopped"

\* the loop has been left by the quit key, after some text had been typed
C1_Witness ==
    /\ loop = "stopped"
    /\ state.active = "None"
    /\ state.search[1] # <<>>

\* C2: in every reachable state a list pane whose item sequence is empty has
\* no selection.
C2_EmptyListUnselected ==
    \A p \in ListPanes : state[p].items = <<>> => state[p].selected = None

\* C3: in every reachable state a list pane with items and a selection has
\* selection < length.
C3_SelectionInRange ==
    \A p \in ListPanes :
        (state[p].items # <<>> /\ IsSome(state[p].selected)) =>
            Unwrap(state[p].selected) < Len(state[p].items)

\* C4: no handler fails: the loop never dies in a handler called with the
\* focus on a list pane (Enter after Up/Down included), and the stub actions
\* leave the state unchanged.
C4_HandlersNeverFail ==
    /\ (loop = "panicked" => state.active \notin {"Musicbar", "Playlistbar", "Artistbar"})
    /\ (loop = "running" /\ state.active # "Searchbar") =>
          /\ \A ch \in {SEEK_F_KEY, SEEK_B_KEY}, ctrl \in BOOLEAN :
                Handle(state, CharEv(ch, ctrl)).s = state
          /\ \A ch \in {NEXT_SH_KEY, PREV_SH_KEY} :
                Handle(state, CharEv(ch, TRUE)).s = state
          /\ (state.active = "Sidebar" /\ state.sidebar \in {Some(2), Some(3)}) =>
                Handle(state, KeyEv("Enter")).s = state

\* C5: Enter with focus Sidebar and no sidebar selection, or one that decodes
\* to no sidebar option, changes nothing and leaves the loop running.
C5_SidebarEnterNoOp ==
    (/\ loop = "running"
     /\ state.active = "Sidebar"
     /\ \/ state.sidebar = None
        \/ SidebarOption_try_from(Unwrap(state.sidebar)) = None) =>
        LET r == Handle(state, KeyEv("Enter"))
        IN r.s = state /\ r.loop = "running"

\* every event the loop can read
AllEvents ==
    {KeyEv(k) : k \in {"Down", "PageDown", "Up", "PageUp", "Right", "Tab", "Left", "BackTab",
                       "Esc", "Enter", "Backspace", "Delete", "Home"}}
    \cup {CharEv(ch, ctrl) : ch \in ShortcutChars \cup {"a"}, ctrl \in BOOLEAN}
    \cup {ResizeEv, MouseEv, TimeoutEv}

\* C6: the dispatching thread never calls lock() on the mutex while it still
\* holds a guard of it: whatever the event and the state, no loop pass ends
\* with the thread blocked on itself.
C6_NoSelfDeadlock ==
    /\ loop # "deadlocked"
    /\ loop = "running" => \A e \in AllEvents : Handle(state, e).loop # "deadlocked"

\* Enter on Playlistbar has gone through handle_enter and, after the drop,
\* through fill_music_from_playlist
C6_Witness ==
    /\ loop = "running"
    /\ state.filled_source[1].tag = "Playlist"
    /\ state.fetched_page[1] = Some(0)
    /\ state.help = "Fetching playlist.."

\* the state the loop pass in progress will end with
PassEnd ==
    Run([s |-> state, stack |-> stack, woke |-> FALSE, dirty |-> dirty,
         loop |-> "running", held |-> FALSE]).s

\* the loop pass in progress has changed the state and will change it again
Intermediate == stack # <<>> /\ wrote /\ PassEnd # state

\* C7 (as claimed): a collaborator that holds the mutex never sees an
\* intermediate state of the handling of one key event.
C7_DispatchAtomic ==
    \A c \in Collabs : cpc[c] = "holding" => ~Intermediate

\* C7 (amended): a collaborator that holds the mutex never sees part of the
\* writes of one critical section: the music descriptor is Artist(id) only
\* together with the playlist descriptor Artist(id), and the Search
\* descriptors carry the committed query.
C7_SectionAtomic ==
    \A c \in Collabs : cpc[c] = "holding" =>
        /\ state.filled_source[1].tag = "Artist" =>
              state.filled_source[2] = state.filled_source[1]
        /\ \A i \in 1..3 : state.filled_source[i].tag = "Search" =>
              state.filled_source[i].arg = state.search[2]

\* a collaborator holds the mutex between the two fill handlers that follow
\* Enter on Artistbar
C7_Witness ==
    /\ \E c \in Collabs : cpc[c] = "holding"
    /\ stack # <<>>
    /\ Head(stack).f = "fill_playlist_from_artist"
    /\ state.filled_source[1].tag = "Artist"

\* the state as it is, and with a character typed into the draft
WithDraft(s) == {s, [s EXCEPT !.search[1] = <<"a">>]}

\* C8: a loop pass that changes the state calls notify_all after its last
\* write, whatever the event, the state and the draft.
C8_WakeAfterWrite ==
    /\ ~dirty
    /\ loop = "running" =>
          \A e \in AllEvents, s \in WithDraft(state) :
             LET r == Handle(s, e)
             IN /\ ~r.dirty
                /\ r.s # s => r.woke

\* Enter on Artistbar has written both descriptors and both pages
C8_Witness ==
    /\ loop = "running"
    /\ state.filled_source[1].tag = "Artist"
    /\ state.filled_source[2].tag = "Artist"
    /\ state.fetched_page[1] = Some(0)
    /\ state.fetched_page[2] = Some(0)

\* C9: once the focus is None every collaborator ends.
C9_QuitReachesCollaborators ==
    \A c \in Collabs : (state.active = "None") ~> (cpc[c] = "done")

\* the focus has become None while a collaborator is blocked in wait
C9_Witness ==
    /\ state.active = "None"
    /\ \E c \in Collabs : cpc[c] = "waiting"

\* q is d without its leading and trailing blanks
IsTrimOf(q, d) ==
    /\ q = <<>> \/ (q[1] # " " /\ q[Len(q)] # " ")
    /\ \E i \in 1..(Len(d) + 1), j \in 0..Len(d) :
          /\ q = SubSeq(d, i, j)
          /\ \A k \in 1..Len(d) : (k < i \/ k > j) => d[k] = " "

\* C10: Enter with focus Searchbar and draft d commits trim(d), sets the
\* three descriptors to Search(trim(d)) and the three pages to Some(0),
\* whatever they were; submitting again gives the same state.
C10_SubmitSearch ==
    (loop = "running" /\ state.active = "Searchbar") =>
        LET r == Handle(state, KeyEv("Enter"))
            q == r.s.search[2]
        IN /\ r.loop = "running"
           /\ IsTrimOf(q, state.search[1])
           /\ r.s.search[1] = state.search[1]
           /\ \A i \in 1..3 : r.s.filled_source[i] = [tag |-> "Search", arg |-> q]
           /\ \A i \in 1..3 : r.s.fetched_page[i] = Some(0)
           /\ Handle(r.s, KeyEv("Enter")).s = r.s

\* a draft with a blank around it has been submitted over other pages
C10_Witness ==
    /\ state.active = "Searchbar"
    /\ state.search[1] # state.search[2]
    /\ state.search[2] # <<>>
    /\ \A i \in 1..3 : state.filled_source[i] = SrcSearch(state.search[2])
    /\ state.fetched_page = <<Some(0), Some(0), Some(0)>>

\* C11: Enter with focus Sidebar and the sidebar selection on Trending sets
\* the music descriptor to Trending, the music page to Some(0) whatever it
\* was, and the status to "Fetching.."; nothing else changes (the playlist and
\* artist descriptors, their pages and the focus included).
C11_EnterTrending ==
    (/\ loop = "running"
     /\ state.active = "Sidebar"
     /\ IsSome(state.sidebar)
     /\ SidebarOption_try_from(Unwrap(state.sidebar)) = Some("Trending")) =>
        LET r == Handle(state, KeyEv("Enter"))
        IN /\ r.loop = "running"
           /\ r.s = [state EXCEPT !.filled_source[1] = SrcTrending,
                                  !.fetched_page[1] = Some(0),
                                  !.help = "Fetching.."]

\* Enter on Trending has replaced another music source whose page had been
\* turned, and the focus is still on the sidebar
C11_Witness ==
    /\ loop = "running"
    /\ state.active = "Sidebar"
    /\ state.filled_source[1] = SrcTrending
    /\ state.fetched_page[1] = Some(0)
    /\ state.help = "Fetching.."
    /\ state.fetched_page[2] = Some(MaxPage)
    /\ state.filled_source[2].tag = "Artist"

\* the list pane that has the focus
FocusedPane(s) ==
    CASE s.active = "Musicbar" -> "musicbar"
      [] s.active = "Playlistbar" -> "playlistbar"
      [] s.active = "Artistbar" -> "artistbar"

\* C12: with the focus on a list pane of L > 0 items and selection Some(i),
\* i < L, Down (and PageDown) selects (i + 1) mod L, Up (and PageUp) selects
\* L - 1 from 0 and i - 1 otherwise, and nothing else changes.
C12_UpDownWraps ==
    (/\ loop = "running"
     /\ state.active \in {"Musicbar", "Playlistbar", "Artistbar"}) =>
        LET p == FocusedPane(state)
            L == Len(state[p].items)
            sel == state[p].selected
        IN (L > 0 /\ IsSome(sel) /\ Unwrap(sel) < L) =>
              LET i == Unwrap(sel)
              IN /\ \A k \in {"Down", "PageDown"} :
                       Handle(state, KeyEv(k)).s =
                          [state EXCEPT ![p].selected = Some((i + 1) % L)]
                 /\ \A k \in {"Up", "PageUp"} :
                       Handle(state, KeyEv(k)).s =
                          [state EXCEPT ![p].selected = Some(IF i = 0 THEN L - 1 ELSE i - 1)]

\* Down has taken the selection of the playlist pane to its last item, from
\* where the next Down wraps, while the other panes keep another selection
C12_Witness ==
    /\ loop = "running"
    /\ state.active = "Playlistbar"
    /\ Len(state.playlistbar.items) = MaxLen
    /\ state.playlistbar.selected = Some(MaxLen - 1)
    /\ state.musicbar.selected = Some(0)
    /\ state.artistbar.selected = None

\* C13: Esc with focus Searchbar empties the draft, moves the focus to
\* Searchbar.next() and changes nothing else; Esc with any other focus
\* changes no field of the state and calls no notify_all.
C13_EscCancelsSearch ==
    loop = "running" =>
        \A w \in Window :
            LET s == [state EXCEPT !.active = w]
                r == Handle(s, KeyEv("Esc"))
            IN /\ r.loop = "running"
               /\ IF w = "Searchbar"
                  THEN r.s = [s EXCEPT !.search[1] = <<>>,
                                       !.active = WindowNext("Searchbar")]
                  ELSE r.s = s /\ ~r.woke

\* a committed query is still there, its draft is gone and the focus is on
\* the pane after the search bar
C13_Witness ==
    /\ loop = "running"
    /\ state.active = WindowNext("Searchbar")
    /\ state.search[1] = <<>>
    /\ Len(state.search[2]) = MaxDraft

\* the state after n loop passes that read the same key
RECURSIVE Pressed(_, _, _)
Pressed(s, key, n) == IF n = 0 THEN s ELSE Pressed(Handle(s, KeyEv(key)).s, key, n - 1)

\* the focus values other than the terminal one, and those of the cycle
NonTerminal == Window \ {"None"}
Cycle == Window \ {"None", "Helpbar"}

C15_OnlyQuitStops ==
    IsSome(state.sidebar) =>
        /\ loop # "running" => state.active = "None"
        /\ (loop = "running" /\ state.active # "None") =>
              \A e \in AllEvents \ {CharEv(QUIT_SH_KEY, TRUE)} :
                 LET r == Handle(state, e)
                 IN r.loop = "running" /\ r.s.active # "None"

\* C16: a poll timeout and a resize event each call notify_all and leave
\* every field of the state as it was; a mouse event leaves the state as it
\* was and calls no notify_all; the loop keeps running after each.
C16_TimeoutResizeMouse ==
    loop = "running" =>
        /\ \A e \in {TimeoutEv, ResizeEv} :
              LET r == Handle(state, e)
              IN r.s = state /\ r.woke /\ r.loop = "running"
        /\ LET r == Handle(state, MouseEv)
           IN r.s = state /\ ~r.woke /\ r.loop = "running"

\* the loop polls with a state in which keys have moved the focus, selected
\* an item and set a source
C16_Witness ==
    /\ loop = "running"
    /\ stack = <<>>
    /\ state.active = "Playlistbar"
    /\ state.playlistbar.selected = Some(MaxLen - 1)
    /\ state.filled_source[1].tag = "Playlist"
    /\ state.sidebar = Some(SIDEBAR_LIST_COUNT - 1)

\* C17: advance_index is a circular step. For a list length L > 0 and a start
\* index i < L: Next followed by Prev returns i, and L times Next returns i;
\* for L > 0 every result of Next or Prev is in 0..L-1, whatever the index
\* passed; for L = 0 every result is 0, whatever the index and direction.
C17_AdvanceIndexCircular ==
    LET L == index.limit
        i == index.origin
        n == Len(index.trail)
    IN /\ (L > 0 /\ i < L /\ index.trail = <<"Next", "Prev">>) => index.current = i
       /\ (L > 0 /\ i < L /\ n = L /\ \A k \in 1..n : index.trail[k] = "Next") =>
             index.current = i
       /\ (L > 0 /\ n > 0 /\ index.trail[n] \in {"Next", "Prev"}) =>
             index.current \in 0..(L - 1)
       /\ (L = 0 /\ n > 0) => index.current = 0

\* from the last index of the longest list, Next has wrapped to 0 and gone
\* round once
C17_Witness ==
    /\ index.limit = MaxLimit
    /\ index.origin = MaxLimit - 1
    /\ Len(index.trail) = MaxLimit
    /\ \A k \in 1..MaxLimit : index.trail[k] = "Next"
    /\ index.current = index.origin

\* C18: when a loop pass that ran to its end has changed the source
\* descriptor of a middle pane, that pane's page is Some(0) at the end of the
\* pass, whatever it was; and Enter on Sidebar/Trending, on Searchbar, on
\* Playlistbar with a selection and on Artistbar with a selection each set
\* their descriptors and leave the pages of those panes at Some(0).
C18_NewSourceFirstPage ==
    loop = "running" =>
        /\ \A e \in AllEvents :
              LET r == Handle(state, e)
              IN r.loop = "running" =>
                    \A i \in 1..3 :
                       r.s.filled_source[i] # state.filled_source[i] =>
                          r.s.fetched_page[i] = Some(0)
        /\ LET r == Handle(state, KeyEv("Enter"))
               src == r.s.filled_source
               page == r.s.fetched_page
           IN r.loop = "running" =>
                 /\ (state.active = "Sidebar" /\ state.sidebar = Some(0)) =>
                       src[1] = SrcTrending /\ page[1] = Some(0)
                 /\ state.active = "Searchbar" =>
                       \A i \in 1..3 : src[i].tag = "Search" /\ page[i] = Some(0)
                 /\ (state.active = "Playlistbar" /\ IsSome(state.playlistbar.selected)) =>
                       src[1].tag = "Playlist" /\ page[1] = Some(0)
                 /\ (state.active = "Artistbar" /\ IsSome(state.artistbar.selected)) =>
                       /\ src[1].tag = "Artist" /\ page[1] = Some(0)
                       /\ src[2].tag = "Artist" /\ page[2] = Some(0)

\* Enter on Playlistbar has replaced the sources of a search whose pages had
\* been turned: the music page is back at Some(0), the others are not
C18_Witness ==
    /\ loop = "running"
    /\ state.active = "Playlistbar"
    /\ state.filled_source[1].tag = "Playlist"
    /\ state.fetched_page[1] = Some(0)
    /\ state.filled_source[2].tag = "Search"
    /\ state.fetched_page[2] = Some(MaxPage)

\* the page slot of a middle pane, counted from 1
SlotOf(w) ==
    CASE w = "Musicbar" -> 1
      [] w = "Playlistbar" -> 2
      [] w = "Artistbar" -> 3

\* C19: 'n' or 'p' without Control, with the focus on Musicbar, Playlistbar
\* or Artistbar, changes that pane's page slot and nothing else: None becomes
\* Some(0), Some(p) becomes Some(p + 1) for 'n' and Some(p - 1), but never
\* less than Some(0), for 'p'; with focus Sidebar, Helpbar or None the key
\* changes nothing and calls no notify_all.
C19_PageKeys ==
    loop = "running" =>
        \A w \in Window \ {"Searchbar"}, ch \in {NEXT_SH_KEY, PREV_SH_KEY} :
            LET s == [state EXCEPT !.active = w]
                r == Handle(s, CharEv(ch, FALSE))
            IN /\ r.loop = "running"
               /\ IF w \in {"Musicbar", "Playlistbar", "Artistbar"}
                  THEN LET old == s.fetched_page[SlotOf(w)]
                           new == IF old = None THEN 0
                                  ELSE IF ch = NEXT_SH_KEY THEN Unwrap(old) + 1
                                  ELSE IF Unwrap(old) = 0 THEN 0
                                  ELSE Unwrap(old) - 1
                       IN /\ r.s = [s EXCEPT !.fetched_page[SlotOf(w)] = Some(new)]
                          /\ new >= 0
                  ELSE r.s = s /\ ~r.woke

\* the pages of the playlist and artist panes have been turned to the last
\* and the music pane's page has not been asked for
C19_Witness ==
    /\ loop = "running"
    /\ state.active = "Artistbar"
    /\ state.fetched_page = <<None, Some(MaxPage), Some(MaxPage)>>

\* C20: Backspace or Delete with focus Searchbar removes the last character
\* of the draft (an empty draft stays empty) and changes nothing else, the
\* focus included; with any other focus it sets the focus to active.prev()
\* and changes nothing else, the draft included.
C20_BackspacePops ==
    loop = "running" =>
        \A w \in Window, k \in {"Backspace", "Delete"} :
            LET s == [state EXCEPT !.active = w]
                d == s.search[1]
                r == Handle(s, KeyEv(k))
            IN /\ r.loop = "running"
               /\ IF w = "Searchbar"
                  THEN r.s = [s EXCEPT !.search[1] =
                                 IF d = <<>> THEN <<>> ELSE SubSeq(d, 1, Len(d) - 1)]
                  ELSE r.s = [s EXCEPT !.active = WindowPrev(w)]

\* one character is left of a draft that was committed at full length, and
\* the focus is still on the search bar
C20_Witness ==
    /\ loop = "running"
    /\ state.active = "Searchbar"
    /\ Len(state.search[2]) = MaxDraft
    /\ Len(state.search[1]) = MaxDraft - 1
    /\ state.search[1] = SubSeq(state.search[2], 1, MaxDraft - 1)

\* C21: the draft changes only while the focus is Searchbar, and the
\* committed query only by Enter on Searchbar. With focus Searchbar every
\* character key, the shortcut characters with and without Control included,
\* appends its character to the draft, changes nothing else and leaves the
\* loop running; with any other focus no event changes the draft; and the
\* committed query never begins or ends with a blank.
C21_DraftOnlyInSearchbar ==
    /\ LET q == state.search[2]
       IN q # <<>> => (q[1] # " " /\ q[Len(q)] # " ")
    /\ loop = "running" =>
          \A w \in Window, e \in AllEvents :
             LET s == [state EXCEPT !.active = w]
                 r == Handle(s, e)
             IN /\ w # "Searchbar" => r.s.search[1] = s.search[1]
                /\ r.s.search[2] # s.search[2] => (w = "Searchbar" /\ e = KeyEv("Enter"))
                /\ (w = "Searchbar" /\ e.code = "Char") =>
                      /\ r.s = [s EXCEPT !.search[1] = Append(s.search[1], e.ch)]
                      /\ r.loop = "running"

\* a draft typed with a blank before a shortcut character has been committed
\* without the blank, and the focus has left the search bar with the draft
\* as it was typed
C21_Witness ==
    /\ loop = "running"
    /\ state.active \notin {"Searchbar", "None"}
    /\ state.search[1] = <<" ", QUIT_SH_KEY>>
    /\ state.search[2] = <<QUIT_SH_KEY>>
    /\ ~state.paused

====
